---- MODULE Spec2Model ----
(***************************************************************************)
(* Model of simulation_app.py: the chromatogram simulation script.         *)
(*                                                                         *)
(* The script is a straight-line pipeline that Streamlit re-executes from  *)
(* the top whenever a widget changes.  The state is the script's global    *)
(* variables plus a program counter; there is one action per block of the  *)
(* script.                                                                 *)
(*                                                                         *)
(* Arithmetic.  Python floats are modelled as exact rationals [n, d] in    *)
(* lowest terms (d > 0); round(x, k) is round-half-to-even on the exact    *)
(* value.  np.exp is evaluated in fixed point (see Kernel).  Inputs are     *)
(* finite numbers; IEEE special values typed in as text ("nan", "inf")     *)
(* are outside the model.                                                  *)
(***************************************************************************)
EXTENDS Integers, Sequences, FiniteSets, TLC

(***************************************************************************)
(* Bounds of the model.                                                    *)
(***************************************************************************)
\* longest compound list typed into the text areas
MaxTokens == 2
\* number of samples of the time axis that the model tracks (1200 in the script)
NSamples == 11
\* number of times the user moves a sample-prep slider after a run
MaxReruns == 1

(***************************************************************************)
(* Exact rational arithmetic standing in for Python floats.                *)
(***************************************************************************)
Abs(a) == IF a < 0 THEN -a ELSE a

RECURSIVE GCD(_, _)
GCD(a, b) == IF b = 0 THEN a ELSE GCD(b, a % b)

\* the rational n/d in lowest terms with a positive denominator (d # 0)
Frac(n, d) ==
    LET g == GCD(Abs(n), Abs(d))
        s == IF d < 0 THEN -1 ELSE 1
    IN  [n |-> (s * n) \div g, d |-> (s * d) \div g]

R(k) == [n |-> k, d |-> 1]

\* a name that is not bound to any value yet (d = 0 is never a rational)
Undefined == [n |-> 0, d |-> 0]

RAdd(a, b) ==
    LET g == GCD(a.d, b.d)
    IN  Frac(a.n * (b.d \div g) + b.n * (a.d \div g), (a.d \div g) * b.d)

RNeg(a) == [n |-> -a.n, d |-> a.d]

RSub(a, b) == RAdd(a, RNeg(b))

RMul(a, b) ==
    LET g1 == GCD(Abs(a.n), b.d)
        g2 == GCD(Abs(b.n), a.d)
    IN  Frac((a.n \div g1) * (b.n \div g2), (a.d \div g2) * (b.d \div g1))

\* a / b for b # 0; the callers test for a zero divisor first
RDiv(a, b) == RMul(a, Frac(b.d, b.n))

RAbs(a) == [n |-> Abs(a.n), d |-> a.d]

RLess(a, b) == a.n * b.d < b.n * a.d

RLeq(a, b) == a.n * b.d <= b.n * a.d

RIsZero(a) == a.n = 0

Pow10(k) == IF k = 0 THEN 1 ELSE IF k = 1 THEN 10 ELSE IF k = 2 THEN 100 ELSE 1000

\* floor(x * p) for an integer p > 0
FloorScaled(x, p) == LET s == RMul(x, R(p)) IN s.n \div s.d

\* Python's round(x, ndigits): nearest multiple of 10^-ndigits, ties to even
Round(x, ndigits) ==
    LET p == Pow10(ndigits)
        s == RMul(x, R(p))
        q == s.n \div s.d
        r == s.n % s.d
        k == IF 2 * r < s.d THEN q
             ELSE IF 2 * r > s.d THEN q + 1
             ELSE IF q % 2 = 0 THEN q ELSE q + 1
    IN  Frac(k, p)

(***************************************************************************)
(* Widget values.                                                          *)
(***************************************************************************)
Integrated == "Integrated System (Your Device)"
Traditional == "Traditional GC-MS"

\* a token of the comma-separated text that is empty after strip()
BlankName == ""
BlankNumber == Undefined

\* compounds the user may type: name, boiling point (deg C), ionization (%)
Compounds ==
    { [name |-> "Acetone",  bp |-> R(56),         ion |-> R(70)],
      [name |-> "Ethanol",  bp |-> R(78),         ion |-> R(65)],
      [name |-> "Toluene",  bp |-> Frac(1106, 10), ion |-> Frac(125, 10)],
      [name |-> "Cryogen",  bp |-> R(-125),       ion |-> R(50)] }

\* slider positions explored by Spec
PrepTemps == {150, 400}
PrepPressures == {1013, 5000}
HotChannelTemps == {100, 250, 400}
ColumnRates == {2, 5, 50}

(***************************************************************************)
(* State: the widgets' values, the script's globals, the position in the   *)
(* script (pc) and, across Streamlit reruns, the artifacts of the          *)
(* previous run.                                                           *)
(***************************************************************************)
VARIABLES
    system_choice,      \* st.radio
    text_names,         \* st.text_area contents, as the tokens of split(",")
    text_bp,
    text_ion,
    prep_temp,          \* sliders
    prep_pressure,
    hot_channel_temp,
    column_rate,
    compound_names,     \* cleaned lists
    boiling_points,
    ion_eff,
    n_compounds,
    hot_factor,
    y_column_ion,       \* signal channels; <<>> until np.zeros_like creates them
    y_column_neutral,
    peak_table,
    i,                  \* cursor of the running for-loop
    center,             \* loop temporaries (module globals in the script)
    width,
    width_column,
    intensity_ion,
    intensity_neutral,
    pc,
    reruns,
    previous            \* <<>> or <<artifacts of the previous run>>

widgets == <<system_choice, text_names, text_bp, text_ion, prep_temp,
             prep_pressure, hot_channel_temp, column_rate>>

parsed == <<compound_names, boiling_points, ion_eff, n_compounds>>

temporaries == <<center, width, width_column, intensity_ion, intensity_neutral>>

signals == <<y_column_ion, y_column_neutral>>

session == <<reruns, previous>>

vars == <<widgets, parsed, hot_factor, signals, peak_table, i, temporaries,
          pc, session>>

\* n_compounds before line 57 binds it
Unbound == -1

\* slider defaults (lines 66, 67, 70)
DefaultPrepTemp == 150
DefaultPrepPressure == 1013
DefaultHotChannelTemp == 250

(***************************************************************************)
(* Lines 49-51: cleaning of the three text inputs.                         *)
(***************************************************************************)
NameKept(c) == c # BlankName

NumberKept(b) == b # BlankNumber

CleanNames(text) == SelectSeq(text, NameKept)

CleanBoilingPoints(text) == SelectSeq(text, NumberKept)

PercentToFraction(seq) == [k \in 1..Len(seq) |-> RDiv(seq[k], R(100))]

CleanIonEff(text) == PercentToFraction(SelectSeq(text, NumberKept))

\* variant: the third list is left out of the comparison
SameLengthsFirstTwo(a, b, c) == Len(a) = Len(b)

SameLengths(a, b, c) == Len(a) = Len(b) /\ Len(b) = Len(c)

(***************************************************************************)
(* Line 75: hot_factor = 1 + (hot_channel_temp - 150)/400                  *)
(*                         + (column_rate/50)*0.1                          *)
(***************************************************************************)
\* variant: the sample-prep oven temperature is read in place of the hot channel's
HotFactorFromPrepOven(hct, rate) ==
    RAdd(RAdd(R(1), Frac(prep_temp - 150, 400)), RMul(Frac(rate, 50), Frac(1, 10)))

\* variant: the temperature term is divided by 40 instead of 400
HotFactorSteep(hct, rate) ==
    RAdd(RAdd(R(1), Frac(hct - 150, 40)), RMul(Frac(rate, 50), Frac(1, 10)))

HotFactor(hct, rate) ==
    RAdd(RAdd(R(1), Frac(hct - 150, 400)), RMul(Frac(rate, 50), Frac(1, 10)))

(***************************************************************************)
(* Lines 84-90: the time axis and the zeroed channels.  A sample is a      *)
(* fixed-point number of thousandths, or NaN.                              *)
(***************************************************************************)
AxisEnd == 20

X(k) == Frac(AxisEnd * (k - 1), NSamples - 1)

Sample(v) == [nan |-> FALSE, v |-> v]

NaN == [nan |-> TRUE, v |-> 0]

Zeros == [k \in 1..NSamples |-> Sample(0)]

(***************************************************************************)
(* Lines 96-97: resolution(t1, w1, t2, w2), for w1 + w2 # 0.               *)
(***************************************************************************)
\* variant: the signed difference of the retention times, without abs()
resolutionSigned(t1, w1, t2, w2) ==
    RDiv(RMul(R(2), RSub(t2, t1)), RAdd(w1, w2))

resolution(t1, w1, t2, w2) ==
    RDiv(RMul(R(2), RAbs(RSub(t2, t1))), RAdd(w1, w2))

(***************************************************************************)
(* Lines 105-119: centre, width and intensities of compound i (0-based).   *)
(***************************************************************************)
Center(idx, bp) == RAdd(RAdd(R(2), R(idx * 2)), RDiv(bp, R(100)))

\* variant: column_rate/10 in place of 10/column_rate
WidthRateInverted(bp, rate) ==
    RAdd(RAdd(Frac(15, 100), RDiv(bp, R(500))), RMul(Frac(rate, 10), Frac(2, 100)))

\* 0.15 + bp/500 + (10/column_rate)*0.02, for column_rate # 0
Width(bp, rate) ==
    RAdd(RAdd(Frac(15, 100), RDiv(bp, R(500))), RMul(Frac(10, rate), Frac(2, 100)))

\* hf is read in the integrated branch only, where it is bound and non-zero
WidthColumn(choice, w, hf) ==
    IF choice = Integrated THEN RDiv(w, hf) ELSE w

IntensityIon(choice, ion, hf) ==
    IF choice = Integrated THEN RMul(ion, hf) ELSE ion

\* variant: the neutral intensity is not scaled by hot_factor
IntensityNeutralUnscaled(choice, ion, hf) ==
    IF choice = Integrated THEN RSub(R(1), ion) ELSE R(0)

\* variant: the traditional system gets a neutral path as well
IntensityNeutralEverywhere(choice, ion, hf) ==
    IF choice = Integrated THEN RMul(RSub(R(1), ion), hf) ELSE RSub(R(1), ion)

IntensityNeutral(choice, ion, hf) ==
    IF choice = Integrated THEN RMul(RSub(R(1), ion), hf) ELSE R(0)

(***************************************************************************)
(* Lines 122-126: the Gaussian peak, added to a channel sample by sample.  *)
(*                                                                         *)
(* np.exp(-((x - center)**2)/(2*width_column**2)) is evaluated in fixed    *)
(* point: distance and width are taken in thousandths of a minute, the     *)
(* exponent z is turned into h = floor(z * log2(e)) and the result is      *)
(* 1000 / 2^h thousandths (0 from h = 10 on).  A zero width follows IEEE   *)
(* arithmetic as numpy does: d/0 = inf and exp(-inf) = 0 off the centre,   *)
(* 0/0 = NaN at the centre.                                                *)
(***************************************************************************)
Pow2(h) == IF h = 0 THEN 1 ELSE IF h = 1 THEN 2 ELSE IF h = 2 THEN 4
           ELSE IF h = 3 THEN 8 ELSE IF h = 4 THEN 16 ELSE IF h = 5 THEN 32
           ELSE IF h = 6 THEN 64 ELSE IF h = 7 THEN 128 ELSE IF h = 8 THEN 256
           ELSE 512

ExpNeg(u) ==
    LET h == (u * u * 1443) \div 20000000
    IN  IF h >= 10 THEN 0 ELSE 1000 \div Pow2(h)

\* the kernel value at sample x, in thousandths, or NaN
Kernel(x, c, wc) ==
    LET dist == RAbs(RSub(x, c))
        d == FloorScaled(dist, 1000)
        w == FloorScaled(RAbs(wc), 1000)
    IN  IF RIsZero(wc)
        THEN IF RIsZero(dist) THEN NaN ELSE Sample(0)
        ELSE IF w = 0
             THEN IF d = 0 THEN Sample(1000) ELSE Sample(0)
             ELSE IF (d * 100) \div w >= 400
                  THEN Sample(0)
                  ELSE Sample(ExpNeg((d * 100) \div w))

\* intensity * kernel
Peak(intensity, x, c, wc) ==
    LET e == Kernel(x, c, wc)
    IN  IF e.nan THEN NaN ELSE Sample((intensity.n * e.v) \div intensity.d)

SampleAdd(a, b) == IF a.nan \/ b.nan THEN NaN ELSE Sample(a.v + b.v)

\* y += intensity * exp(...)
Accumulate(y, intensity, c, wc) ==
    [k \in 1..NSamples |-> SampleAdd(y[k], Peak(intensity, X(k), c, wc))]

(***************************************************************************)
(* Lines 128-134: the row appended to peak_table.  The key "Resolution vs  *)
(* Previous" is absent until the resolution pass writes it.                *)
(***************************************************************************)
Absent == [tag |-> "absent", val |-> Undefined]

None == [tag |-> "None", val |-> Undefined]

Number(r) == [tag |-> "number", val |-> r]

\* variant: the row is inserted at the head of the table
AppendRowAtHead(table, row) == <<row>> \o table

\* line 128: peak_table.append(row)
AppendRow(table, row) == Append(table, row)

PeakRow(name, c, wc, ii, in) ==
    [ Compound |-> name,
      RetentionTime |-> Round(c, 2),
      PeakWidth |-> Round(wc, 3),
      IonicIntensity |-> Round(ii, 3),
      NeutralIntensity |-> Round(in, 3),
      ResolutionVsPrevious |-> Absent ]

(***************************************************************************)
(* Initial state: a fresh session.  The text areas hold a list of at most  *)
(* MaxTokens compounds, in each of which one token may have been left      *)
(* blank ("Acetone, , Ethanol"); no script variable is bound yet.          *)
(***************************************************************************)
CompoundLists == UNION { [1..m -> Compounds] : m \in 0..MaxTokens }

NamesText(s, blankFirst) ==
    [k \in 1..Len(s) |-> IF blankFirst /\ k = 1 THEN BlankName ELSE s[k].name]

BoilingText(s, blankLast) ==
    [k \in 1..Len(s) |-> IF blankLast /\ k = Len(s) THEN BlankNumber ELSE s[k].bp]

IonText(s, blankLast) ==
    [k \in 1..Len(s) |-> IF blankLast /\ k = Len(s) THEN BlankNumber ELSE s[k].ion]

FreshScript ==
    /\ compound_names = <<>>
    /\ boiling_points = <<>>
    /\ ion_eff = <<>>
    /\ n_compounds = Unbound
    /\ hot_factor = Undefined
    /\ y_column_ion = <<>>
    /\ y_column_neutral = <<>>
    /\ peak_table = <<>>
    /\ i = 0
    /\ center = Undefined
    /\ width = Undefined
    /\ width_column = Undefined
    /\ intensity_ion = Undefined
    /\ intensity_neutral = Undefined
    /\ pc = "clean"

TextInputs ==
    \E s \in CompoundLists : \E bn, bb, bi \in BOOLEAN :
        /\ text_names = NamesText(s, bn)
        /\ text_bp = BoilingText(s, bb)
        /\ text_ion = IonText(s, bi)

Init ==
    /\ system_choice \in {Integrated, Traditional}
    /\ TextInputs
    /\ prep_temp = DefaultPrepTemp
    /\ prep_pressure = DefaultPrepPressure
    /\ hot_channel_temp \in
         IF system_choice = Integrated THEN HotChannelTemps ELSE {DefaultHotChannelTemp}
    /\ column_rate \in ColumnRates
    /\ FreshScript
    /\ reruns = 0
    /\ previous = <<>>

(***************************************************************************)
(* Lines 49-57: clean the inputs, stop on a length mismatch.               *)
(***************************************************************************)
CleanInputs ==
    /\ pc = "clean"
    /\ compound_names' = CleanNames(text_names)
    /\ boiling_points' = CleanBoilingPoints(text_bp)
    /\ ion_eff' = CleanIonEff(text_ion)
    /\ IF SameLengths(compound_names', boiling_points', ion_eff')
       THEN /\ n_compounds' = Len(compound_names')
            /\ pc' = "settings"
       ELSE /\ n_compounds' = n_compounds
            /\ pc' = "stopped"
    /\ UNCHANGED <<widgets, hot_factor, signals, peak_table, i, temporaries, session>>

(***************************************************************************)
(* Lines 62-79: read the sliders; hot_factor in the integrated system.     *)
(***************************************************************************)
ThermalSettings ==
    /\ pc = "settings"
    /\ hot_factor' = IF system_choice = Integrated
                     THEN HotFactor(hot_channel_temp, column_rate)
                     ELSE hot_factor
    /\ pc' = "containers"
    /\ UNCHANGED <<widgets, parsed, signals, peak_table, i, temporaries, session>>

(***************************************************************************)
(* Lines 84-91: time axis, zeroed channels, empty peak table.              *)
(***************************************************************************)
SignalContainers ==
    /\ pc = "containers"
    /\ y_column_ion' = Zeros
    /\ y_column_neutral' = Zeros
    /\ peak_table' = <<>>
    /\ i' = 0
    /\ pc' = "simulate"
    /\ UNCHANGED <<widgets, parsed, hot_factor, temporaries, session>>

(***************************************************************************)
(* Lines 102-134: one pass of the simulation loop (or its exit).  The      *)
(* float divisions 10/column_rate and width/hot_factor raise               *)
(* ZeroDivisionError on a zero divisor; the numpy division by              *)
(* 2*width_column**2 does not.                                             *)
(***************************************************************************)
SimulationStep ==
    /\ pc = "simulate"
    /\ IF i < n_compounds
       THEN IF column_rate = 0 \/ (system_choice = Integrated /\ RIsZero(hot_factor))
            THEN /\ pc' = "ZeroDivisionError"
                 /\ UNCHANGED <<signals, peak_table, i, temporaries>>
            ELSE /\ center' = Center(i, boiling_points[i + 1])
                 /\ width' = Width(boiling_points[i + 1], column_rate)
                 /\ width_column' = WidthColumn(system_choice, width', hot_factor)
                 /\ intensity_ion' = IntensityIon(system_choice, ion_eff[i + 1], hot_factor)
                 /\ intensity_neutral' =
                        IntensityNeutral(system_choice, ion_eff[i + 1], hot_factor)
                 /\ y_column_ion' =
                        Accumulate(y_column_ion, intensity_ion', center', width_column')
                 /\ y_column_neutral' =
                        Accumulate(y_column_neutral, intensity_neutral', center', width_column')
                 /\ peak_table' =
                        AppendRow(peak_table,
                                  PeakRow(compound_names[i + 1], center', width_column',
                                          intensity_ion', intensity_neutral'))
                 /\ i' = i + 1
                 /\ pc' = pc
       ELSE /\ pc' = "resolution"
            /\ i' = 1
            /\ UNCHANGED <<signals, peak_table, temporaries>>
    /\ UNCHANGED <<widgets, parsed, hot_factor, session>>

(***************************************************************************)
(* Lines 139-144: one pass of the resolution loop (or its exit).  Row i    *)
(* of the script is peak_table[i + 1] here.                                *)
(***************************************************************************)
ResolutionStep ==
    /\ pc = "resolution"
    /\ IF i < Len(peak_table)
       THEN LET t1 == peak_table[i].RetentionTime
                t2 == peak_table[i + 1].RetentionTime
                w1 == peak_table[i].PeakWidth
                w2 == peak_table[i + 1].PeakWidth
            IN  IF RIsZero(RAdd(w1, w2))
                THEN /\ pc' = "ZeroDivisionError"
                     /\ UNCHANGED <<peak_table, i>>
                ELSE /\ peak_table' =
                          [peak_table EXCEPT ![i + 1].ResolutionVsPrevious =
                               Number(Round(resolution(t1, w1, t2, w2), 2))]
                     /\ i' = i + 1
                     /\ pc' = pc
       ELSE /\ pc' = "first_row"
            /\ UNCHANGED <<peak_table, i>>
    /\ UNCHANGED <<widgets, parsed, hot_factor, signals, temporaries, session>>

(***************************************************************************)
(* Line 146: peak_table[0]["Resolution vs Previous"] = None, an IndexError *)
(* on an empty list.  "done" is line 148: the table goes to the display.   *)
(***************************************************************************)
FirstRowNone ==
    /\ pc = "first_row"
    /\ IF Len(peak_table) = 0
       THEN /\ pc' = "IndexError"
            /\ UNCHANGED peak_table
       ELSE /\ peak_table' = [peak_table EXCEPT ![1].ResolutionVsPrevious = None]
            /\ pc' = "done"
    /\ UNCHANGED <<widgets, parsed, hot_factor, signals, i, temporaries, session>>

(***************************************************************************)
(* Lines 66-67: the user moves a sample-prep slider, and Streamlit runs    *)
(* the script again from the top.  The sliders exist once the integrated   *)
(* branch has rendered them.                                               *)
(***************************************************************************)
Artifacts ==
    [ outcome |-> pc, ion |-> y_column_ion, neutral |-> y_column_neutral,
      peaks |-> peak_table ]

Ended == pc \in {"done", "IndexError", "ZeroDivisionError"}

MovePrepSlider ==
    /\ Ended
    /\ system_choice = Integrated
    /\ reruns < MaxReruns
    /\ \E t \in PrepTemps, p \in PrepPressures :
          /\ <<t, p>> # <<prep_temp, prep_pressure>>
          /\ prep_temp' = t
          /\ prep_pressure' = p
    /\ previous' = <<Artifacts>>
    /\ reruns' = reruns + 1
    /\ compound_names' = <<>>
    /\ boiling_points' = <<>>
    /\ ion_eff' = <<>>
    /\ n_compounds' = Unbound
    /\ hot_factor' = Undefined
    /\ y_column_ion' = <<>>
    /\ y_column_neutral' = <<>>
    /\ peak_table' = <<>>
    /\ i' = 0
    /\ center' = Undefined
    /\ width' = Undefined
    /\ width_column' = Undefined
    /\ intensity_ion' = Undefined
    /\ intensity_neutral' = Undefined
    /\ pc' = "clean"
    /\ UNCHANGED <<system_choice, text_names, text_bp, text_ion, hot_channel_temp,
                   column_rate>>

Next ==
    \/ CleanInputs
    \/ ThermalSettings
    \/ SignalContainers
    \/ SimulationStep
    \/ ResolutionStep
    \/ FirstRowNone
    \/ MovePrepSlider

Spec == Init /\ [][Next]_vars

(***************************************************************************)
(* A single run of the script from every position of the two sliders that  *)
(* feed a divisor (lines 70 and 72), on a fixed sample.                    *)
(***************************************************************************)
HotChannelMin == 100
HotChannelMax == 400
ColumnRateMin == 1
ColumnRateMax == 50

SliderSample ==
    << [name |-> "Toluene", bp |-> Frac(1106, 10), ion |-> Frac(125, 10)],
       [name |-> "Water",   bp |-> R(0),           ion |-> R(100)] >>

InitSliders ==
    /\ system_choice \in {Integrated, Traditional}
    /\ text_names = NamesText(SliderSample, FALSE)
    /\ text_bp = BoilingText(SliderSample, FALSE)
    /\ text_ion = IonText(SliderSample, FALSE)
    /\ prep_temp = DefaultPrepTemp
    /\ prep_pressure = DefaultPrepPressure
    /\ hot_channel_temp \in
         IF system_choice = Integrated
         THEN HotChannelMin..HotChannelMax
         ELSE {DefaultHotChannelTemp}
    /\ column_rate \in ColumnRateMin..ColumnRateMax
    /\ FreshScript
    /\ reruns = 0
    /\ previous = <<>>

NextRun ==
    \/ CleanInputs
    \/ ThermalSettings
    \/ SignalContainers
    \/ SimulationStep
    \/ ResolutionStep
    \/ FirstRowNone

SpecSliders == InitSliders /\ [][NextRun]_vars

(***************************************************************************)
(* Properties.                                                             *)
(***************************************************************************)
Running == pc \in {"settings", "containers", "simulate", "resolution", "first_row"}

AllZero(y) == Len(y) = NSamples /\ \A k \in 1..NSamples : y[k] = Sample(0)

HasNaN(y) == \E k \in 1..Len(y) : y[k].nan

Rows == 1..Len(peak_table)

\* C1: whenever the three cleaned lists differ in length the run is stopped
\* before the simulation loop: no row is appended and no channel sample is
\* written.
C1_MismatchStopsBeforeSynthesis ==
    (\/ Len(compound_names) # Len(boiling_points)
     \/ Len(boiling_points) # Len(ion_eff)) =>
        /\ pc = "stopped"
        /\ peak_table = <<>>
        /\ y_column_ion = <<>>
        /\ y_column_neutral = <<>>

C1_Witness ==
    /\ pc = "stopped"
    /\ Len(compound_names) = 1
    /\ Len(boiling_points) = 2
    /\ Len(ion_eff) = 1

\* C2: a run with zero compounds completes without error, with both channels
\* zero at every sample and an empty peak table.
C2_ZeroCompoundsCompletes ==
    (n_compounds = 0 /\ ~Running) =>
        /\ pc = "done"
        /\ AllZero(y_column_ion)
        /\ AllZero(y_column_neutral)
        /\ peak_table = <<>>

\* C3: a zero denominator (column_rate, hot_factor, width_column or the sum
\* of two adjacent recorded widths) makes the run fail with a
\* DegenerateParameterError: no uncontrolled division fault, no NaN in a
\* channel, and no run that carries on with the zero divisor.
ZeroWidthSum ==
    \E k \in 2..Len(peak_table) :
        RIsZero(RAdd(peak_table[k].PeakWidth, peak_table[k - 1].PeakWidth))

ZeroDenominator ==
    \/ pc # "clean" /\ pc # "stopped" /\ column_rate = 0
    \/ hot_factor # Undefined /\ RIsZero(hot_factor)
    \/ width_column # Undefined /\ RIsZero(width_column)
    \/ ZeroWidthSum

C3_ZeroDenominatorFailsTyped ==
    /\ pc # "ZeroDivisionError"
    /\ ~HasNaN(y_column_ion)
    /\ ~HasNaN(y_column_neutral)
    /\ ZeroDenominator => pc = "DegenerateParameterError"

\* C4: the rows of the peak table are the cleaned compound names in input
\* order at every point of the run, and a finished table has exactly
\* n_compounds rows.
C4_TableMatchesInput ==
    /\ Len(peak_table) <= Len(compound_names)
    /\ \A k \in Rows : peak_table[k].Compound = compound_names[k]
    /\ pc \in {"resolution", "first_row", "done"} => Len(peak_table) = n_compounds
    /\ pc = "done" => compound_names = CleanNames(text_names)

C4_Witness ==
    /\ pc = "done"
    /\ Len(peak_table) = MaxTokens
    /\ peak_table[1].Compound # peak_table[2].Compound
    /\ peak_table[2].ResolutionVsPrevious # Absent

\* C5: after the resolution pass the first row holds None and every later
\* row k holds round(2*|t_k - t_(k-1)| / (w_k + w_(k-1)), 2) of the recorded
\* values of rows k and k-1 in input order.
ExpectedResolution(k) ==
    LET dt == RSub(peak_table[k].RetentionTime, peak_table[k - 1].RetentionTime)
        ws == RAdd(peak_table[k].PeakWidth, peak_table[k - 1].PeakWidth)
    IN  Number(Round(RDiv(Frac(2 * Abs(dt.n), dt.d), ws), 2))

C5_ResolutionOfAdjacentRows ==
    pc = "done" =>
        /\ Len(peak_table) >= 1
        /\ peak_table[1].ResolutionVsPrevious = None
        /\ \A k \in 2..Len(peak_table) :
              peak_table[k].ResolutionVsPrevious = ExpectedResolution(k)

\* a finished table whose second row elutes before the first
C5_Witness ==
    /\ pc = "done"
    /\ Len(peak_table) >= 2
    /\ RLess(peak_table[2].RetentionTime, peak_table[1].RetentionTime)
    /\ peak_table[2].ResolutionVsPrevious.tag = "number"

\* C6 as stated: in the integrated system the recorded ionic and neutral
\* intensities of every row add up to hot_factor.
C6_RecordedSumIsHotFactor ==
    system_choice = Integrated =>
        \A k \in Rows :
            RAdd(peak_table[k].IonicIntensity, peak_table[k].NeutralIntensity)
                = hot_factor

\* C6 amended: the unrounded intensities add up to hot_factor, and the
\* recorded (3-decimal) intensities add up to it within 0.001.
C6_RecordedSumWithinRounding ==
    system_choice = Integrated =>
        /\ intensity_ion # Undefined =>
              RAdd(intensity_ion, intensity_neutral) = hot_factor
        /\ \A k \in Rows :
              RLeq(RAbs(RSub(RAdd(peak_table[k].IonicIntensity,
                                  peak_table[k].NeutralIntensity),
                             hot_factor)),
                   Frac(1, 1000))

C6_Witness ==
    /\ system_choice = Integrated
    /\ pc = "done"
    /\ \E k \in Rows :
          RAdd(peak_table[k].IonicIntensity, peak_table[k].NeutralIntensity)
              # hot_factor

\* C7: in the traditional system every row has neutral intensity 0 and every
\* sample of the neutral channel stays 0, at every point of the run.
C7_PlainNeutralIsZero ==
    system_choice = Traditional =>
        /\ \A k \in Rows : peak_table[k].NeutralIntensity = R(0)
        /\ \A k \in 1..Len(y_column_neutral) : y_column_neutral[k] = Sample(0)
        /\ intensity_neutral \in {Undefined, R(0)}

C7_Witness ==
    /\ system_choice = Traditional
    /\ pc = "done"
    /\ Len(peak_table) = MaxTokens
    /\ \E k \in 1..NSamples : y_column_ion[k].v > 0

\* C8: a run that differs from the previous one only in the sample-prep
\* sliders ends the same way with the same channels and the same peak table.
C8_PrepSlidersInert ==
    (Ended /\ previous # <<>>) => Artifacts = previous[1]

C8_Witness ==
    /\ pc = "done"
    /\ previous # <<>>
    /\ prep_temp # DefaultPrepTemp
    /\ prep_pressure # DefaultPrepPressure
    /\ Len(peak_table) = MaxTokens
    /\ \E k \in 1..NSamples : y_column_neutral[k].v > 0

\* C9: row k (0-based index k - 1) holds
\*   retention = round(2 + 2(k-1) + bp/100, 2),
\*   width     = round(0.15 + bp/500 + (10/rate)*0.02, 3), divided by
\*               hot_factor before rounding in the integrated system,
\*   ionic     = round(ion, 3) or round(ion*hot_factor, 3),
\*   neutral   = 0 or round((1 - ion)*hot_factor, 3),
\* with hot_factor = 1 + (hct - 150)/400 + (rate/50)*0.1; Acetone first at
\* rate 5 gives 2.56 / 0.302 / 0.70 / 0, and 1.26 / 0.882 / 0.378 at 250 C.
\* The expected values are written as single fractions of the inputs.
ExpHotFactor == Frac(2000 + 5 * (hot_channel_temp - 150) + 4 * column_rate, 2000)

ExpCenter(k) ==
    LET bp == boiling_points[k]
    IN  Frac(200 * k * bp.d + bp.n, 100 * bp.d)

ExpBaseWidth(k) ==
    LET bp == boiling_points[k]
    IN  Frac(75 * bp.d * column_rate + bp.n * column_rate + 100 * bp.d,
             500 * bp.d * column_rate)

ExpRow(k) ==
    IF system_choice = Integrated
    THEN [ RetentionTime |-> Round(ExpCenter(k), 2),
           PeakWidth |-> Round(RDiv(ExpBaseWidth(k), ExpHotFactor), 3),
           IonicIntensity |-> Round(RMul(ion_eff[k], ExpHotFactor), 3),
           NeutralIntensity |->
               Round(RMul(RSub(R(1), ion_eff[k]), ExpHotFactor), 3) ]
    ELSE [ RetentionTime |-> Round(ExpCenter(k), 2),
           PeakWidth |-> Round(ExpBaseWidth(k), 3),
           IonicIntensity |-> Round(ion_eff[k], 3),
           NeutralIntensity |-> R(0) ]

Measured(row) ==
    [ RetentionTime |-> row.RetentionTime,
      PeakWidth |-> row.PeakWidth,
      IonicIntensity |-> row.IonicIntensity,
      NeutralIntensity |-> row.NeutralIntensity ]

AcetoneFirst ==
    /\ Len(peak_table) >= 1
    /\ boiling_points[1] = R(56)
    /\ ion_eff[1] = Frac(70, 100)
    /\ column_rate = 5

C9_RowFormulas ==
    /\ \A k \in Rows : Measured(peak_table[k]) = ExpRow(k)
    /\ (AcetoneFirst /\ system_choice = Traditional) =>
          Measured(peak_table[1]) =
              [ RetentionTime |-> Frac(256, 100), PeakWidth |-> Frac(302, 1000),
                IonicIntensity |-> Frac(70, 100), NeutralIntensity |-> R(0) ]
    /\ (AcetoneFirst /\ system_choice = Integrated /\ hot_channel_temp = 250) =>
          /\ hot_factor = Frac(126, 100)
          /\ peak_table[1].IonicIntensity = Frac(882, 1000)
          /\ peak_table[1].NeutralIntensity = Frac(378, 1000)

C9_Witness ==
    /\ pc = "done"
    /\ AcetoneFirst
    /\ system_choice = Integrated
    /\ hot_channel_temp = 250
    /\ Len(peak_table) = MaxTokens

\* C10: for every position of the hot-channel slider (100..400) and of the
\* column-rate slider (1..50), column_rate is non-zero and hot_factor is
\* positive, and a compound with a boiling point >= 0 gets a positive width,
\* so that no division of the run has a zero divisor.
NonNegativeBoilingPoints ==
    \A k \in 1..Len(boiling_points) : boiling_points[k].n >= 0

C10_SliderRangesKeepDivisorsNonZero ==
    /\ column_rate # 0
    /\ hot_factor # Undefined => hot_factor.n > 0
    /\ NonNegativeBoilingPoints =>
          /\ width_column # Undefined => width_column.n > 0
          /\ \A k \in Rows : peak_table[k].PeakWidth.n > 0
          /\ ~ZeroWidthSum
          /\ pc # "ZeroDivisionError"

\* the lowest hot_factor of the slider ranges, in a finished run
C10_Witness ==
    /\ pc = "done"
    /\ system_choice = Integrated
    /\ hot_channel_temp = HotChannelMin
    /\ column_rate = ColumnRateMin
    /\ Len(peak_table) = 2

====
